---- MODULE Spec2Model ----
(***************************************************************************)
(* Retrieval and feedback engine of the test-case generator:               *)
(* EnhancedRAGHelper (backend/enhanced_rag_helper.py) and the endpoints of *)
(* backend/app.py that drive it.                                           *)
(*                                                                         *)
(* Units.  A quality score is an integer number of hundredths (4.5 = 450). *)
(* A cosine distance is an integer number of hundredths (0 .. 200).  A     *)
(* relevance score is an integer number of millionths (1.0 = 1000000).     *)
(* Identifiers built with f-strings are sequences of their parts.          *)
(***************************************************************************)
EXTENDS Integers, Sequences, FiniteSets, TLC

VARIABLES
    rag,                  \* app.rag_helper: "real" (EnhancedRAGHelper) or "mock" (MockRAGHelper)
    collection,           \* EnhancedRAGHelper.collection ("testcases"), in insertion order
    feedback_collection,  \* EnhancedRAGHelper.feedback_collection ("feedback_data")
    now,                  \* datetime.now(), as a tick count
    issued,               \* story ids handed out in generate-test-cases responses
    last,                 \* the call that completed last, with its inputs and result
    pc,                   \* position of each worker thread inside add_feedback
    local,                \* local variables of each worker thread inside add_feedback
    meta                  \* a story metadata dictionary driven through the score update

vars == <<rag, collection, feedback_collection, now, issued, last, pc, local, meta>>

-----------------------------------------------------------------------------
(* Bounds of the model *)

MaxTopK == 2
MaxTime == 1
MaxFeedback == 1
MaxPromote == 2

-----------------------------------------------------------------------------
(* Values *)

Absent == -1            \* a key that a metadata dictionary does not hold
None == -2              \* Python None
NoKey == <<>>           \* the "story_id" metadata key when it is not set

T_LOGIN == "user logs in with valid credentials"
T_CART == "add product to cart and checkout"
S_LOGIN == "As a user, I want to login to my account so that I can access my personal information."
S_CART == "As a customer, I want to add products to cart so that I can purchase multiple items together."

Texts == {T_LOGIN, T_CART}

Min(a, b) == IF a <= b THEN a ELSE b
Max(a, b) == IF a >= b THEN a ELSE b

NumStr(n) ==
    CASE n = 0 -> "0" [] n = 1 -> "1" [] n = 2 -> "2" [] n = 3 -> "3"
      [] n = 4 -> "4" [] n = 5 -> "5" [] OTHER -> "9"

\* a test case dictionary; context_relevance is Absent until retrieval tags it
Case(id) == [id |-> id, context_relevance |-> Absent]

\* minimal_data of setup_learning_system.py, the content of sample_testcases.json
SampleExamples ==
    << [userStory |-> S_LOGIN, testCases |-> << Case("TC_LOGIN_001") >>],
       [userStory |-> S_CART, testCases |-> << Case("TC_CART_001") >>] >>

\* a sample file in which one user story occurs twice
RepeatedExamples ==
    << [userStory |-> S_LOGIN, testCases |-> << Case("TC_LOGIN_001") >>],
       [userStory |-> S_LOGIN, testCases |-> << Case("TC_LOGIN_002") >>] >>

\* the contents of the files that ingest_testcases_from_json is called with
SampleFiles == { SampleExamples, RepeatedExamples }

\* lists of test cases a generation produces (parse_testcases_from_text numbers them TC_001, ...)
GeneratedCaseLists == { << Case("TC_001"), Case("TC_002") >> }

-----------------------------------------------------------------------------
(* Pure helpers of EnhancedRAGHelper *)

\* "story_" + md5(story)[:8]
generate_story_id(story) ==
    CASE story = T_LOGIN -> << "story_6cdd4ca8" >>
      [] story = T_CART -> << "story_9a459e10" >>
      [] OTHER -> << "story_d38296f7" >>

\* first domain of the keyword table with a keyword that is a substring of the story
extract_domain(story) ==
    CASE story = T_LOGIN -> "authentication"
      [] story = T_CART -> "ecommerce"
      [] story = S_LOGIN -> "authentication"
      [] story = S_CART -> "ecommerce"
      [] OTHER -> "general"

\* the words longer than 2 that are no stop words (at most 10, most frequent first)
extract_keywords(story) ==
    CASE story = T_LOGIN -> {"user", "logs", "with", "valid", "credentials"}
      [] story = T_CART -> {"add", "product", "cart", "checkout"}
      [] story = S_LOGIN -> {"user", "login", "account", "can", "access", "personal", "information"}
      [] story = S_CART -> {"customer", "add", "products", "cart", "can", "purchase", "multiple",
                            "items", "together"}
      [] OTHER -> {}

\* cosine distance between the embeddings of two texts (the embedder is external)
Distance(a, b) ==
    IF a = b THEN 0
    ELSE IF extract_domain(a) = extract_domain(b) THEN 30
    ELSE 90

MetaGet(value, default) == IF value = Absent THEN default ELSE value

\* the quality score and the feedback count that a reader of the record sees
QualityScore(metadata) == MetaGet(metadata.feedback_score, 300)

FeedbackCount(metadata) == MetaGet(metadata.feedback_count, 0)

\* variant: user-improved examples get no priority boost
calculate_relevance_score_no_priority(metadata, distance, query_domain, query_keywords) ==
    LET semantic_score == Max(0, 100 - distance) * 3500
        domain_score == IF query_domain = metadata.domain THEN 250000 ELSE 50000
        keyword_overlap == Cardinality(query_keywords \cap metadata.keywords)
        keyword_score == Min(150000, keyword_overlap * 30000)
        feedback_score == MetaGet(metadata.feedback_score, 300)
        feedback_count == MetaGet(metadata.feedback_count, 0)
        quality_base ==
            IF feedback_count >= 3 THEN (feedback_score - 300) * 1000
            ELSE IF feedback_count >= 1 THEN (feedback_score - 300) * 750
            ELSE 50000
        quality_score ==
            quality_base
        recency_score ==
            IF metadata.source = "generated" THEN 50000
            ELSE IF metadata.source = "user_improved" THEN 30000
            ELSE 10000
        total_score == semantic_score + domain_score + keyword_score + quality_score + recency_score
        boosted ==
            IF feedback_score >= 450 /\ feedback_count >= 2 THEN (total_score * 11) \div 10
            ELSE IF feedback_score <= 200 /\ feedback_count >= 2 THEN (total_score * 8) \div 10
            ELSE total_score
    IN  Min(1000000, boosted)

\* variant: the domain bonus is granted whether or not the domains match
calculate_relevance_score_flat_domain(metadata, distance, query_domain, query_keywords) ==
    LET semantic_score == Max(0, 100 - distance) * 3500
        domain_score == 250000
        keyword_overlap == Cardinality(query_keywords \cap metadata.keywords)
        keyword_score == Min(150000, keyword_overlap * 30000)
        feedback_score == MetaGet(metadata.feedback_score, 300)
        feedback_count == MetaGet(metadata.feedback_count, 0)
        quality_base ==
            IF feedback_count >= 3 THEN (feedback_score - 300) * 1000
            ELSE IF feedback_count >= 1 THEN (feedback_score - 300) * 750
            ELSE 50000
        quality_score ==
            IF metadata.source = "user_improved" THEN quality_base + 100000 ELSE quality_base
        recency_score ==
            IF metadata.source = "generated" THEN 50000
            ELSE IF metadata.source = "user_improved" THEN 30000
            ELSE 10000
        total_score == semantic_score + domain_score + keyword_score + quality_score + recency_score
        boosted ==
            IF feedback_score >= 450 /\ feedback_count >= 2 THEN (total_score * 11) \div 10
            ELSE IF feedback_score <= 200 /\ feedback_count >= 2 THEN (total_score * 8) \div 10
            ELSE total_score
    IN  Min(1000000, boosted)

\* _calculate_relevance_score in millionths; distance and feedback_score in hundredths
calculate_relevance_score(metadata, distance, query_domain, query_keywords) ==
    LET semantic_score == Max(0, 100 - distance) * 3500
        domain_score == IF query_domain = metadata.domain THEN 250000 ELSE 50000
        keyword_overlap == Cardinality(query_keywords \cap metadata.keywords)
        keyword_score == Min(150000, keyword_overlap * 30000)
        feedback_score == MetaGet(metadata.feedback_score, 300)
        feedback_count == MetaGet(metadata.feedback_count, 0)
        quality_base ==
            IF feedback_count >= 3 THEN (feedback_score - 300) * 1000
            ELSE IF feedback_count >= 1 THEN (feedback_score - 300) * 750
            ELSE 50000
        quality_score ==
            IF metadata.source = "user_improved" THEN quality_base + 100000 ELSE quality_base
        recency_score ==
            IF metadata.source = "generated" THEN 50000
            ELSE IF metadata.source = "user_improved" THEN 30000
            ELSE 10000
        total_score == semantic_score + domain_score + keyword_score + quality_score + recency_score
        boosted ==
            IF feedback_score >= 450 /\ feedback_count >= 2 THEN (total_score * 11) \div 10
            ELSE IF feedback_score <= 200 /\ feedback_count >= 2 THEN (total_score * 8) \div 10
            ELSE total_score
    IN  Min(1000000, boosted)

generate_domain_specific_edge_cases(domain) ==
    CASE domain = "ecommerce" -> << Case("edge_ecom_1"), Case("edge_ecom_2") >>
      [] domain = "authentication" -> << Case("edge_auth_1") >>
      [] OTHER -> << Case("edge_gen_1") >>

get_fallback_cases == << Case("fallback_1") >>

-----------------------------------------------------------------------------
(* The store: chromadb collections *)

Ids(coll) == { coll[i].id : i \in 1..Len(coll) }

\* variant: an id that is already stored gets the new record (Collection.upsert)
CollectionUpsert(coll, rec) ==
    IF rec.id \in Ids(coll)
    THEN [ i \in 1..Len(coll) |-> IF coll[i].id = rec.id THEN rec ELSE coll[i] ]
    ELSE Append(coll, rec)

\* Collection.add: an id that is already stored is not added again
CollectionAdd(coll, rec) == IF rec.id \in Ids(coll) THEN coll ELSE Append(coll, rec)

\* the positions of the records of coll stored under id
Stored(coll, id) == { i \in 1..Len(coll) : coll[i].id = id }

\* Collection.get(where={"story_id": story_id}): the positions whose metadata
\* hold the key "story_id" with that value
CollectionGetWhereStoryId(coll, story_id) ==
    { i \in 1..Len(coll) : coll[i].story_id = story_id }

\* the element of a one-element set: Value({ e : v \in {a} }) is e with v
\* standing for the value of a, which is computed once
Value(S) == CHOOSE x \in S : TRUE

\* a function on 1..n as a list
AsSeq(f) == f \o <<>>

\* the position that a stable ascending sort by the integer field key gives s[i]
SortRank(s, i) ==
    Cardinality({ j \in 1..Len(s) : s[j].key < s[i].key \/ (s[j].key = s[i].key /\ j <= i) })

\* stable sort of records by their integer field key, ascending
SortByKey(seq) ==
    Value({ AsSeq([ p \in 1..Len(s) |-> s[CHOOSE i \in 1..Len(s) : SortRank(s, i) = p] ])
            : s \in {AsSeq(seq)} })

Take(seq, n) == Value({ SubSeq(s, 1, Min(Len(s), n)) : s \in {seq} })

\* Collection.query(query_embeddings, n_results): the n_results nearest records,
\* nearest first (records at the same distance in insertion order)
CollectionQuery(coll, query, n_results) ==
    LET keyed == [ i \in 1..Len(coll) |->
                     [key |-> Distance(query, coll[i].document), rec |-> coll[i]] ]
    IN  Value({ AsSeq([ i \in 1..Len(nearest) |->
                          [metadata |-> nearest[i].rec, distance |-> nearest[i].key] ])
                : nearest \in {Take(SortByKey(keyed), n_results)} })

-----------------------------------------------------------------------------
(* Records *)

\* metadata and document written by ingest_testcases_from_json for item i
SampleRecord(i, item) ==
    [ id |-> << "sample", NumStr(i) >>,
      document |-> item.userStory,
      testCases |-> item.testCases,
      domain |-> extract_domain(item.userStory),
      keywords |-> extract_keywords(item.userStory),
      source |-> "sample_data",
      feedback_score |-> Absent,
      feedback_count |-> Absent,
      last_feedback |-> Absent,
      story_id |-> NoKey,
      original_story_id |-> NoKey ]

\* metadata and document written by add_generated_story_context
GeneratedRecord(user_story, generated_testcases, feedback_score) ==
    [ id |-> generate_story_id(user_story),
      document |-> user_story,
      testCases |-> generated_testcases,
      domain |-> extract_domain(user_story),
      keywords |-> extract_keywords(user_story),
      source |-> "generated",
      feedback_score |-> IF feedback_score = None THEN 0 ELSE feedback_score,
      feedback_count |-> Absent,
      last_feedback |-> Absent,
      story_id |-> NoKey,
      original_story_id |-> NoKey ]

\* round(num / den, 2) for a quotient counted in hundredths.  When the exact
\* quotient lies halfway between two hundredths, the error of the floating-point
\* division decides the direction: tie_up tells whether it went up.
Round2(num, den, tie_up) ==
    LET q == num \div den
        r == num % den
    IN  IF 2 * r < den THEN q
        ELSE IF 2 * r > den THEN q + 1
        ELSE IF tie_up THEN q + 1 ELSE q

\* variant: the weight 1.2 of the new score is left out of the divisor
UpdatedMetadataScaledUnitDivisor(current_metadata, new_score, scale, time, tie_up) ==
    LET current_score == MetaGet(current_metadata.feedback_score, 300)
        feedback_count == MetaGet(current_metadata.feedback_count, 0)
        updated_score == Round2(current_score * feedback_count * 10 * scale + new_score * 12,
                                (feedback_count * 10 + 10) * scale, tie_up)
    IN  [ current_metadata EXCEPT !.feedback_score = updated_score,
                                  !.feedback_count = feedback_count + 1,
                                  !.last_feedback = time ]

\* the metadata _update_story_quality_score writes back for one matching record,
\* for a new score counted in units of 1 / scale hundredths
UpdatedMetadataScaled(current_metadata, new_score, scale, time, tie_up) ==
    LET current_score == MetaGet(current_metadata.feedback_score, 300)
        feedback_count == MetaGet(current_metadata.feedback_count, 0)
        updated_score == Round2(current_score * feedback_count * 10 * scale + new_score * 12,
                                (feedback_count * 10 + 12) * scale, tie_up)
    IN  [ current_metadata EXCEPT !.feedback_score = updated_score,
                                  !.feedback_count = feedback_count + 1,
                                  !.last_feedback = time ]

\* variant: the new score enters the average with weight 1 instead of 1.2
UpdatedMetadataUnitWeight(current_metadata, new_score, time, tie_up) ==
    LET current_score == MetaGet(current_metadata.feedback_score, 300)
        feedback_count == MetaGet(current_metadata.feedback_count, 0)
        updated_score == Round2(current_score * feedback_count * 10 + new_score * 10,
                                feedback_count * 10 + 10, tie_up)
    IN  [ current_metadata EXCEPT !.feedback_score = updated_score,
                                  !.feedback_count = feedback_count + 1,
                                  !.last_feedback = time ]

\* the same for a new score counted in hundredths
UpdatedMetadata(current_metadata, new_score, time, tie_up) ==
    UpdatedMetadataScaled(current_metadata, new_score, 1, time, tie_up)

\* variant: the length thresholds are inclusive
calculate_feedback_weight_inclusive(quality_score, feedback_len) ==
    LET length_bonus == IF feedback_len >= 50 THEN 30
                        ELSE IF feedback_len >= 20 THEN 10 ELSE 0
        extreme_bonus == IF quality_score <= 200 \/ quality_score >= 450 THEN 20 ELSE 0
    IN  Min(200, 100 + length_bonus + extreme_bonus)

calculate_feedback_weight(quality_score, feedback_len) ==
    LET length_bonus == IF feedback_len > 50 THEN 30
                        ELSE IF feedback_len > 20 THEN 10 ELSE 0
        extreme_bonus == IF quality_score <= 200 \/ quality_score >= 450 THEN 20 ELSE 0
    IN  Min(200, 100 + length_bonus + extreme_bonus)

\* feedback_data and id written by add_feedback (of the payload only the fields
\* that are read again: the texts, categories and serialized lists are left out)
FeedbackRecord(story_id, quality_score, feedback_len, improved_testcases, time) ==
    [ id |-> << "feedback" >> \o story_id \o << NumStr(time) >>,
      story_id |-> story_id,
      quality_score |-> quality_score,
      feedback_date |-> time,
      feedback_weight |-> calculate_feedback_weight(quality_score, feedback_len) ]

\* metadata and document written by _add_improved_examples_to_knowledge_base
ImprovedRecord(original, original_story_id, improved_testcases, time) ==
    [ original EXCEPT !.id = << "improved" >> \o original_story_id \o << NumStr(time) >>,
                      !.testCases = improved_testcases,
                      !.source = "user_improved",
                      !.feedback_score = 500,
                      !.original_story_id = original_story_id ]

-----------------------------------------------------------------------------
(* EnhancedRAGHelper: the public methods.  faults names the calls to the     *)
(* embedder or to the store that raise during the invocation.                *)

FaultPoints == {"encode", "query", "get", "update", "add", "duplicate"}

\* the loop body of ingest_testcases_from_json from item i on; it has no
\* exception handler, so the first call that raises ends the ingestion
RECURSIVE IngestFrom(_, _, _, _)
IngestFrom(coll, examples, i, faults) ==
    IF i > Len(examples) THEN [collection |-> coll, outcome |-> "returned"]
    ELSE LET rec == SampleRecord(i - 1, examples[i])
         IN  IF "encode" \in faults \/ "add" \in faults
                \/ (rec.id \in Ids(coll) /\ "duplicate" \in faults)
             THEN [collection |-> coll, outcome |-> "raised"]
             ELSE IngestFrom(CollectionAdd(coll, rec), examples, i + 1, faults)

ingest_testcases_from_json(coll, examples, faults) == IngestFrom(coll, examples, 1, faults)

\* variant: the record is appended under a fresh id even when the text is stored
add_generated_story_context_appending(coll, user_story, generated_testcases, feedback_score, faults) ==
    IF "encode" \in faults \/ "add" \in faults
    THEN [collection |-> coll, outcome |-> "returned"]
    ELSE [collection |->
              Append(coll, GeneratedRecord(user_story, generated_testcases, feedback_score)),
          outcome |-> "returned"]

\* every exception is caught and logged: the method always returns None
add_generated_story_context(coll, user_story, generated_testcases, feedback_score, faults) ==
    IF "encode" \in faults \/ "add" \in faults
    THEN [collection |-> coll, outcome |-> "returned"]
    ELSE [collection |->
              CollectionAdd(coll, GeneratedRecord(user_story, generated_testcases, feedback_score)),
          outcome |-> "returned"]

\* the inner loop of retrieve_similar_with_context over the test cases of one result
RECURSIVE AddCases(_, _, _)
AddCases(combined, test_cases, relevance_score) ==
    IF test_cases = <<>> THEN combined
    ELSE LET case == Head(test_cases)
             seen_ids == { combined[i].id : i \in 1..Len(combined) }
         IN  Value({ AddCases(next, rest, relevance_score)
                     : next \in { IF case.id \in seen_ids THEN combined
                                  ELSE Append(combined,
                                           [case EXCEPT !.context_relevance = relevance_score]) },
                       rest \in { Tail(test_cases) } })

\* the outer loop of retrieve_similar_with_context over scored_results[:top_k]
RECURSIVE CombineCases(_, _)
CombineCases(combined, results) ==
    IF results = <<>> THEN combined
    ELSE Value({ CombineCases(next, rest)
                 : next \in { AddCases(combined, Head(results).metadata.testCases,
                                       Head(results).relevance_score) },
                   rest \in { Tail(results) } })

\* variant: candidates with equal scores come out in the reverse of the query's order
ScoredResultsTiesReversed(coll, user_story, top_k) ==
    LET story_domain == extract_domain(user_story)
        story_keywords == extract_keywords(user_story)
    IN  Value({ SortByKey([ i \in 1..Len(results) |->
                    [ metadata |-> results[Len(results) + 1 - i].metadata,
                      distance |-> results[Len(results) + 1 - i].distance,
                      relevance_score |->
                          calculate_relevance_score(results[Len(results) + 1 - i].metadata,
                              results[Len(results) + 1 - i].distance, story_domain, story_keywords),
                      key |-> 0 - calculate_relevance_score(results[Len(results) + 1 - i].metadata,
                                      results[Len(results) + 1 - i].distance, story_domain,
                                      story_keywords) ] ])
                : results \in { CollectionQuery(coll, user_story, Min(top_k * 3, 20)) } })

\* scored_results after scoring and the descending stable sort
ScoredResults(coll, user_story, top_k) ==
    LET story_domain == extract_domain(user_story)
        story_keywords == extract_keywords(user_story)
    IN  Value({ SortByKey([ i \in 1..Len(results) |->
                    [ metadata |-> results[i].metadata,
                      distance |-> results[i].distance,
                      relevance_score |->
                          calculate_relevance_score(results[i].metadata, results[i].distance,
                                                    story_domain, story_keywords),
                      key |-> 0 - calculate_relevance_score(results[i].metadata,
                                      results[i].distance, story_domain, story_keywords) ] ])
                : results \in { CollectionQuery(coll, user_story, Min(top_k * 3, 20)) } })

\* variant: an exception of the embedder or of the store query is propagated
retrieve_similar_with_context_raising(coll, user_story, top_k, faults) ==
    IF "encode" \in faults \/ "query" \in faults
    THEN [outcome |-> "raised", cases |-> <<>>]
    ELSE LET edge_cases == generate_domain_specific_edge_cases(extract_domain(user_story))
         IN  Value({ [ outcome |-> "returned",
                       cases |-> Take(IF Len(combined) < top_k
                                      THEN combined \o Take(edge_cases, top_k - Len(combined))
                                      ELSE combined,
                                      top_k) ]
                     : combined \in { CombineCases(<<>>,
                                          Take(ScoredResults(coll, user_story, top_k), top_k)) } })

\* variant: a shortfall is not filled with the edge cases of the domain
retrieve_similar_with_context_unfilled(coll, user_story, top_k, faults) ==
    IF "encode" \in faults \/ "query" \in faults
    THEN [outcome |-> "returned", cases |-> get_fallback_cases]
    ELSE Value({ [ outcome |-> "returned", cases |-> Take(combined, top_k) ]
                 : combined \in { CombineCases(<<>>,
                                      Take(ScoredResults(coll, user_story, top_k), top_k)) } })

retrieve_similar_with_context(coll, user_story, top_k, faults) ==
    IF "encode" \in faults \/ "query" \in faults
    THEN [outcome |-> "returned", cases |-> get_fallback_cases]
    ELSE LET edge_cases == generate_domain_specific_edge_cases(extract_domain(user_story))
         IN  Value({ [ outcome |-> "returned",
                       cases |-> Take(IF Len(combined) < top_k
                                      THEN combined \o Take(edge_cases, top_k - Len(combined))
                                      ELSE combined,
                                      top_k) ]
                     : combined \in { CombineCases(<<>>,
                                          Take(ScoredResults(coll, user_story, top_k), top_k)) } })

\* its own handler catches every exception: the method always returns None
update_story_quality_score(coll, story_id, new_score, time, tie_up, faults) ==
    IF "get" \in faults THEN coll
    ELSE LET matched == CollectionGetWhereStoryId(coll, story_id)
         IN  IF matched = {} \/ "update" \in faults THEN coll
             ELSE [ i \in 1..Len(coll) |->
                      IF i \in matched THEN UpdatedMetadata(coll[i], new_score, time, tie_up)
                      ELSE coll[i] ]

\* variant: the improved metadata is written over the original record
add_improved_examples_in_place(coll, original_story_id, improved_testcases, time, faults) ==
    IF "get" \in faults THEN coll
    ELSE LET matched == CollectionGetWhereStoryId(coll, original_story_id)
         IN  IF matched = {} \/ "encode" \in faults \/ "add" \in faults THEN coll
             ELSE LET first == CHOOSE i \in matched : \A j \in matched : i <= j
                  IN  [ i \in 1..Len(coll) |->
                          IF i = first
                          THEN ImprovedRecord(coll[first], original_story_id,
                                              improved_testcases, time)
                          ELSE coll[i] ]

\* its own handler catches every exception: the method always returns None
add_improved_examples_to_knowledge_base(coll, original_story_id, improved_testcases, time, faults) ==
    IF "get" \in faults THEN coll
    ELSE LET matched == CollectionGetWhereStoryId(coll, original_story_id)
         IN  IF matched = {} \/ "encode" \in faults \/ "add" \in faults THEN coll
             ELSE LET first == CHOOSE i \in matched : \A j \in matched : i <= j
                  IN  CollectionAdd(coll, ImprovedRecord(coll[first], original_story_id,
                                                         improved_testcases, time))

\* the handler of add_feedback catches every exception: the method always returns None
add_feedback(coll, fb, story_id, testcase_quality_score, feedback_len, improved_testcases, time, tie_up, faults) ==
    LET updated == update_story_quality_score(coll, story_id, testcase_quality_score, time,
                                              tie_up, faults)
        rec == FeedbackRecord(story_id, testcase_quality_score, feedback_len,
                              improved_testcases, time)
    IN  IF "encode" \in faults \/ "add" \in faults
           \/ (rec.id \in Ids(fb) /\ "duplicate" \in faults)
        THEN [collection |-> updated, feedback_collection |-> fb, outcome |-> "returned"]
        ELSE [collection |->
                  IF improved_testcases # <<>> /\ testcase_quality_score >= 400
                  THEN add_improved_examples_to_knowledge_base(updated, story_id,
                           improved_testcases, time, faults)
                  ELSE updated,
              feedback_collection |-> CollectionAdd(fb, rec),
              outcome |-> "returned"]

-----------------------------------------------------------------------------
(* app.py: the endpoints *)

\* build_enhanced_story_context: story_hash = hash(user_story) % 10000, a number
story_hash(user_story) ==
    CASE user_story = T_LOGIN -> "4711"
      [] user_story = T_CART -> "1234"
      [] OTHER -> "77"

\* str(story_id) of a number received by the feedback endpoint
StrOfNumber(n) == << n >>

\* the similar test cases generate_test_cases works with: the mock helper
\* returns [], an exception of the helper is caught and gives []
EndpointSimilarCases(ragKind, coll, full_story, faults) ==
    IF ragKind = "mock" THEN <<>>
    ELSE Value({ IF r.outcome = "raised" THEN <<>> ELSE r.cases
                 : r \in { retrieve_similar_with_context(coll, full_story, 5, faults) } })

\* variant: a request whose retrieval failed is answered with an error
generate_test_cases_blocking(ragKind, coll, user_story, test_cases, faults) ==
    IF user_story = ""
    THEN [ status |-> 400, similar |-> <<>>, prompt |-> "none", llm |-> "not_called",
           collection |-> coll, story_id |-> "" ]
    ELSE IF ragKind = "mock" \/ "encode" \in faults \/ "query" \in faults
    THEN [ status |-> 500, similar |-> <<>>, prompt |-> "none", llm |-> "not_called",
           collection |-> coll, story_id |-> "" ]
    ELSE LET similar_test_cases == EndpointSimilarCases(ragKind, coll, user_story, faults)
             prompt == IF "prompt" \in faults THEN "basic" ELSE "enhanced"
         IN  IF "llm" \in faults
             THEN [ status |-> 500, similar |-> similar_test_cases, prompt |-> prompt,
                    llm |-> "failed", collection |-> coll, story_id |-> "" ]
             ELSE [ status |-> 200, similar |-> similar_test_cases, prompt |-> prompt,
                    llm |-> "called",
                    collection |->
                        add_generated_story_context(coll, user_story, test_cases,
                                                    None, faults).collection,
                    story_id |-> story_hash(user_story) ]

\* generate_test_cases from the merged story on; faults names the calls that raise
generate_test_cases(ragKind, coll, user_story, test_cases, faults) ==
    IF user_story = ""
    THEN [ status |-> 400, similar |-> <<>>, prompt |-> "none", llm |-> "not_called",
           collection |-> coll, story_id |-> "" ]
    ELSE LET similar_test_cases == EndpointSimilarCases(ragKind, coll, user_story, faults)
             prompt == IF "prompt" \in faults THEN "basic" ELSE "enhanced"
         IN  IF "llm" \in faults
             THEN [ status |-> 500, similar |-> similar_test_cases, prompt |-> prompt,
                    llm |-> "failed", collection |-> coll, story_id |-> "" ]
             ELSE [ status |-> 200, similar |-> similar_test_cases, prompt |-> prompt,
                    llm |-> "called",
                    collection |->
                        IF ragKind = "mock" THEN coll
                        ELSE add_generated_story_context(coll, user_story, test_cases,
                                                         None, faults).collection,
                    story_id |-> story_hash(user_story) ]

\* submit_feedback; story_id is "" when the request has none, quality_score
\* is None when the request has none
submit_feedback(ragKind, coll, fb, story_id, quality_score, feedback_len, improved_testcases, time, tie_up, faults) ==
    IF story_id = "" \/ quality_score = None
    THEN [ status |-> 400, collection |-> coll, feedback_collection |-> fb ]
    ELSE IF ~ (100 <= quality_score /\ quality_score <= 500)
    THEN [ status |-> 400, collection |-> coll, feedback_collection |-> fb ]
    ELSE IF ragKind = "mock"
    THEN [ status |-> 200, collection |-> coll, feedback_collection |-> fb ]
    ELSE LET r == add_feedback(coll, fb, StrOfNumber(story_id), quality_score, feedback_len,
                               improved_testcases, time, tie_up, faults)
         IN  [ status |-> IF r.outcome = "raised" THEN 500 ELSE 200,
               collection |-> r.collection, feedback_collection |-> r.feedback_collection ]

-----------------------------------------------------------------------------
(* Inputs *)

Workers == {1, 2}

TopKs == 0..MaxTopK

\* feedback events a caller of add_feedback sends: a high score with improved
\* test cases, a low score for a seed record, a score outside [1, 5]
FeedbackEvents ==
    { [ story_id |-> generate_story_id(T_LOGIN), quality_score |-> 450, feedback_len |-> 60,
        improved |-> << Case("TC_IMP_001") >> ],
      [ story_id |-> << "sample", "0" >>, quality_score |-> 100, feedback_len |-> 5,
        improved |-> <<>> ],
      [ story_id |-> generate_story_id(T_LOGIN), quality_score |-> 600, feedback_len |-> 5,
        improved |-> <<>> ] }

\* at most one call raises during an invocation
FaultSets(points) == { {} } \cup { {p} : p \in points }

NoCall ==
    [ op |-> "none", text |-> "", story_id |-> <<>>, top_k |-> 0, quality_score |-> None,
      improved |-> <<>>, faults |-> {}, outcome |-> "none", cases |-> <<>>, status |-> 0,
      examples |-> <<>>, distance |-> 0, relevance_score |-> 0,
      similar |-> <<>>, prompt |-> "none", llm |-> "not_called",
      pre_collection |-> <<>>, pre_feedback |-> <<>>,
      feedback_len |-> 0, scale |-> 1, words |-> <<>>, domain |-> "", stats |-> <<>> ]

NoLocal == [ story_id |-> <<>>, quality_score |-> None, feedback_len |-> 0, improved |-> <<>>,
             results |-> <<>>, existed |-> FALSE, pre_count |-> 0, pre_score |-> 0 ]

NoMeta == GeneratedRecord(T_LOGIN, <<>>, None)

-----------------------------------------------------------------------------
(* The engine used as a library, one call at a time *)

Init ==
    /\ rag = "real"
    /\ collection = <<>>
    /\ feedback_collection = <<>>
    /\ now = 0
    /\ issued = {}
    /\ last = NoCall
    /\ pc = [ w \in Workers |-> "idle" ]
    /\ local = [ w \in Workers |-> NoLocal ]
    /\ meta = NoMeta

Tick ==
    /\ now < MaxTime
    /\ now' = now + 1
    /\ UNCHANGED <<rag, collection, feedback_collection, issued, last, pc, local, meta>>

Called(op) == [ NoCall EXCEPT !.op = op, !.pre_collection = collection,
                              !.pre_feedback = feedback_collection ]

IngestTestcasesFromJson ==
    /\ rag = "real"
    /\ \E examples \in SampleFiles, faults \in FaultSets({"encode", "add", "duplicate"}) :
          LET r == ingest_testcases_from_json(collection, examples, faults)
          IN  /\ collection' = r.collection
              /\ last' = [ Called("ingest") EXCEPT !.examples = examples, !.faults = faults,
                                                   !.outcome = r.outcome ]
    /\ UNCHANGED <<rag, feedback_collection, now, issued, pc, local, meta>>

AddGeneratedStoryContext ==
    /\ rag = "real"
    /\ \E user_story \in Texts, generated_testcases \in GeneratedCaseLists,
          faults \in FaultSets({"encode", "add"}) :
          LET r == add_generated_story_context(collection, user_story, generated_testcases,
                                               None, faults)
          IN  /\ collection' = r.collection
              /\ last' = [ Called("add_generated_story_context") EXCEPT
                             !.text = user_story, !.faults = faults, !.outcome = r.outcome ]
    /\ UNCHANGED <<rag, feedback_collection, now, issued, pc, local, meta>>

RetrieveSimilarWithContext ==
    /\ rag = "real"
    /\ \E user_story \in Texts, top_k \in TopKs, faults \in FaultSets({"encode", "query"}) :
          \E r \in { retrieve_similar_with_context(collection, user_story, top_k, faults) } :
              last' = [ Called("retrieve_similar_with_context") EXCEPT
                          !.text = user_story, !.top_k = top_k, !.faults = faults,
                          !.outcome = r.outcome, !.cases = r.cases ]
    /\ UNCHANGED <<rag, collection, feedback_collection, now, issued, pc, local, meta>>

AddFeedback ==
    /\ rag = "real"
    /\ Len(feedback_collection) < MaxFeedback
    /\ \E e \in FeedbackEvents, tie_up \in BOOLEAN,
          faults \in FaultSets({"get", "update", "encode", "add", "duplicate"}) :
          LET r == add_feedback(collection, feedback_collection, e.story_id, e.quality_score,
                                e.feedback_len, e.improved, now, tie_up, faults)
          IN  /\ collection' = r.collection
              /\ feedback_collection' = r.feedback_collection
              /\ last' = [ Called("add_feedback") EXCEPT
                             !.story_id = e.story_id, !.quality_score = e.quality_score,
                             !.improved = e.improved, !.faults = faults,
                             !.outcome = r.outcome ]
    /\ UNCHANGED <<rag, now, issued, pc, local, meta>>

Next ==
    \/ Tick
    \/ IngestTestcasesFromJson
    \/ AddGeneratedStoryContext
    \/ RetrieveSimilarWithContext
    \/ AddFeedback

Spec == Init /\ [][Next]_vars

-----------------------------------------------------------------------------
(* The web application: requests handled one at a time *)

\* the story_id and quality_score fields of the feedback requests a client sends
FeedbackRequests ==
    { [ story_id |-> story_hash(T_LOGIN), quality_score |-> 450, feedback_len |-> 60,
        improved |-> <<>> ],
      [ story_id |-> story_hash(T_LOGIN), quality_score |-> 600, feedback_len |-> 5,
        improved |-> <<>> ],
      [ story_id |-> "", quality_score |-> 450, feedback_len |-> 5, improved |-> <<>> ],
      [ story_id |-> story_hash(T_CART), quality_score |-> None, feedback_len |-> 5,
        improved |-> <<>> ] }

InitApp ==
    /\ rag \in {"real", "mock"}
    /\ collection = <<>>
    /\ feedback_collection = <<>>
    /\ now = 0
    /\ issued = {}
    /\ last = NoCall
    /\ pc = [ w \in Workers |-> "idle" ]
    /\ local = [ w \in Workers |-> NoLocal ]
    /\ meta = NoMeta

GenerateTestCases ==
    /\ \E user_story \in Texts \cup {""}, test_cases \in GeneratedCaseLists,
          faults \in FaultSets({"encode", "query", "add", "prompt", "llm"}) :
          \E r \in { generate_test_cases(rag, collection, user_story, test_cases, faults) } :
              /\ collection' = r.collection
              /\ issued' = IF r.status = 200
                           THEN issued \cup { [story_id |-> r.story_id, text |-> user_story] }
                           ELSE issued
              /\ last' = [ Called("generate_test_cases") EXCEPT
                             !.text = user_story, !.faults = faults, !.status = r.status,
                             !.similar = r.similar, !.prompt = r.prompt, !.llm = r.llm,
                             !.outcome = "returned" ]
    /\ UNCHANGED <<rag, feedback_collection, now, pc, local, meta>>

SubmitFeedback ==
    /\ Len(feedback_collection) < MaxFeedback
    /\ \E e \in FeedbackRequests, tie_up \in BOOLEAN,
          faults \in FaultSets({"get", "update", "encode", "add", "duplicate"}) :
          LET r == submit_feedback(rag, collection, feedback_collection, e.story_id,
                                   e.quality_score, e.feedback_len, e.improved, now,
                                   tie_up, faults)
          IN  /\ collection' = r.collection
              /\ feedback_collection' = r.feedback_collection
              /\ last' = [ Called("submit_feedback") EXCEPT
                             !.story_id = IF e.story_id = "" THEN <<>>
                                          ELSE StrOfNumber(e.story_id),
                             !.quality_score = e.quality_score,
                             !.improved = e.improved, !.faults = faults,
                             !.status = r.status, !.outcome = "returned" ]
    /\ UNCHANGED <<rag, now, issued, pc, local, meta>>

NextApp ==
    \/ Tick
    \/ GenerateTestCases
    \/ SubmitFeedback

SpecApp == InitApp /\ [][NextApp]_vars

-----------------------------------------------------------------------------
(* Two worker threads inside add_feedback, one store call per step *)

\* the events the two threads send: both for the same story
ConcurrentEvents ==
    { [ story_id |-> generate_story_id(T_LOGIN), quality_score |-> 450, feedback_len |-> 60,
        improved |-> <<>> ],
      [ story_id |-> generate_story_id(T_LOGIN), quality_score |-> 100, feedback_len |-> 5,
        improved |-> << Case("TC_IMP_001") >> ] }

\* add_feedback is entered with one of events
FbEnter(w, events) ==
    /\ pc[w] = "idle"
    /\ Len(feedback_collection)
          + Cardinality({ v \in Workers : pc[v] \in {"update_get", "update_write", "feedback_add"} })
          <= MaxFeedback
    /\ \E e \in events :
          LET stored == Stored(collection, e.story_id)
              first == CHOOSE i \in stored : \A j \in stored : i <= j
          IN  local' = [ local EXCEPT ![w] =
                  [ story_id |-> e.story_id, quality_score |-> e.quality_score,
                    feedback_len |-> e.feedback_len, improved |-> e.improved,
                    results |-> <<>>, existed |-> stored # {},
                    pre_count |-> IF stored = {} THEN 0
                                  ELSE MetaGet(collection[first].feedback_count, 0),
                    pre_score |-> IF stored = {} THEN 0
                                  ELSE MetaGet(collection[first].feedback_score, 300) ] ]
    /\ pc' = [ pc EXCEPT ![w] = "update_get" ]
    /\ UNCHANGED <<rag, collection, feedback_collection, now, issued, last, meta>>

FbCall(w) == FbEnter(w, ConcurrentEvents)

\* _update_story_quality_score: results = self.collection.get(where=...)
FbUpdateGet(w) ==
    /\ pc[w] = "update_get"
    /\ LET matched == CollectionGetWhereStoryId(collection, local[w].story_id)
           positions == SortByKey([ i \in 1..Cardinality(matched) |->
                                      [ key |-> CHOOSE k \in matched :
                                                  Cardinality({ m \in matched : m < k }) = i - 1 ] ])
       IN  local' = [ local EXCEPT ![w].results =
                        [ i \in 1..Len(positions) |->
                            [ pos |-> positions[i].key,
                              metadata |-> collection[positions[i].key] ] ] ]
    /\ pc' = [ pc EXCEPT ![w] = "update_write" ]
    /\ UNCHANGED <<rag, collection, feedback_collection, now, issued, last, meta>>

\* _update_story_quality_score: the loop of self.collection.update over the results
FbUpdateWrite(w) ==
    /\ pc[w] = "update_write"
    /\ \E tie_up \in BOOLEAN :
          LET written == { local[w].results[k].pos : k \in 1..Len(local[w].results) }
              from(i) == CHOOSE k \in 1..Len(local[w].results) : local[w].results[k].pos = i
          IN  collection' =
                  IF written = {} THEN collection
                  ELSE [ i \in 1..Len(collection) |->
                           IF i \in written
                           THEN UpdatedMetadata(local[w].results[from(i)].metadata,
                                                local[w].quality_score, now, tie_up)
                           ELSE collection[i] ]
    /\ pc' = [ pc EXCEPT ![w] = "feedback_add" ]
    /\ UNCHANGED <<rag, feedback_collection, now, issued, last, local, meta>>

\* add_feedback: self.feedback_collection.add
FbFeedbackAdd(w) ==
    /\ pc[w] = "feedback_add"
    /\ feedback_collection' =
           CollectionAdd(feedback_collection,
                         FeedbackRecord(local[w].story_id, local[w].quality_score,
                                        local[w].feedback_len, local[w].improved, now))
    /\ pc' = [ pc EXCEPT ![w] = "improve" ]
    /\ UNCHANGED <<rag, collection, now, issued, last, local, meta>>

\* add_feedback: _add_improved_examples_to_knowledge_base when the score is at least 4.0
FbImprove(w) ==
    /\ pc[w] = "improve"
    /\ collection' =
           IF local[w].improved # <<>> /\ local[w].quality_score >= 400
           THEN add_improved_examples_to_knowledge_base(collection, local[w].story_id,
                                                        local[w].improved, now, {})
           ELSE collection
    /\ pc' = [ pc EXCEPT ![w] = "done" ]
    /\ UNCHANGED <<rag, feedback_collection, now, issued, last, local, meta>>

\* add_feedback returns; the thread is free for the next request
FbReturn(w) ==
    /\ pc[w] = "done"
    /\ pc' = [ pc EXCEPT ![w] = "idle" ]
    /\ local' = [ local EXCEPT ![w] = NoLocal ]
    /\ UNCHANGED <<rag, collection, feedback_collection, now, issued, last, meta>>

NextConc ==
    \/ Tick
    \/ AddGeneratedStoryContext
    \/ \E w \in Workers : FbCall(w)
    \/ \E w \in Workers : FbUpdateGet(w)
    \/ \E w \in Workers : FbUpdateWrite(w)
    \/ \E w \in Workers : FbFeedbackAdd(w)
    \/ \E w \in Workers : FbImprove(w)
    \/ \E w \in Workers : FbReturn(w)

SpecConc == Init /\ [][NextConc]_vars

-----------------------------------------------------------------------------
(* add_feedback on a persistent store whose records carry the metadata key   *)
(* "story_id", the key that the lookups of the feedback path filter on       *)

\* a record as a store holds it when its metadata carry its id as "story_id"
WithStoryIdKey(rec) == [ rec EXCEPT !.story_id = rec.id ]

\* the collection that chromadb.PersistentClient finds on disk at construction
PersistedStores ==
    { << WithStoryIdKey(GeneratedRecord(T_LOGIN, << Case("TC_001") >>, None)) >>,
      << SampleRecord(0, SampleExamples[1]),
         WithStoryIdKey(GeneratedRecord(T_LOGIN, << Case("TC_001") >>, 400)) >> }

\* feedback for the stored story: with improved test cases and a score of at
\* least 4.0, with improved test cases and a lower score, without improved ones
PromotionEvents ==
    { [ story_id |-> generate_story_id(T_LOGIN), quality_score |-> 450, feedback_len |-> 60,
        improved |-> << Case("TC_IMP_001") >> ],
      [ story_id |-> generate_story_id(T_LOGIN), quality_score |-> 300, feedback_len |-> 5,
        improved |-> << Case("TC_IMP_002") >> ],
      [ story_id |-> generate_story_id(T_LOGIN), quality_score |-> 500, feedback_len |-> 5,
        improved |-> <<>> ] }

InitPromote ==
    /\ rag = "real"
    /\ collection \in PersistedStores
    /\ feedback_collection = <<>>
    /\ now = 0
    /\ issued = {}
    /\ last = NoCall
    /\ pc = [ w \in Workers |-> "idle" ]
    /\ local = [ w \in Workers |-> NoLocal ]
    /\ meta = NoMeta

\* add_feedback is entered while the feedback counts are below the bound
PromoteCall(w) ==
    /\ \A i \in 1..Len(collection) :
           FeedbackCount(collection[i]) + Cardinality({ v \in Workers : pc[v] # "idle" })
               < MaxPromote
    /\ FbEnter(w, PromotionEvents)

NextPromote ==
    \/ Tick
    \/ \E w \in Workers : PromoteCall(w)
    \/ \E w \in Workers : FbUpdateGet(w)
    \/ \E w \in Workers : FbUpdateWrite(w)
    \/ \E w \in Workers : FbFeedbackAdd(w)
    \/ \E w \in Workers : FbImprove(w)
    \/ \E w \in Workers : FbReturn(w)

SpecPromote == InitPromote /\ [][NextPromote]_vars

-----------------------------------------------------------------------------
(* The score update of _update_story_quality_score applied again and again  *)
(* to one metadata dictionary                                               *)

MaxCount == 3

UpdateScores == {100, 200, 300, 400, 450, 500}

InitUpdate ==
    /\ rag = "real"
    /\ collection = <<>>
    /\ feedback_collection = <<>>
    /\ now = 0
    /\ issued = {}
    /\ last = NoCall
    /\ pc = [ w \in Workers |-> "idle" ]
    /\ local = [ w \in Workers |-> NoLocal ]
    /\ meta \in { SampleRecord(0, SampleExamples[1]),
                  GeneratedRecord(T_LOGIN, << Case("TC_001") >>, None),
                  GeneratedRecord(T_LOGIN, << Case("TC_001") >>, 400) }

\* one pass of the loop body of _update_story_quality_score over meta
ApplyScoreUpdate ==
    /\ MetaGet(meta.feedback_count, 0) < MaxCount
    /\ \E new_score \in UpdateScores, tie_up \in BOOLEAN :
          /\ meta' = UpdatedMetadata(meta, new_score, now, tie_up)
          /\ last' = [ NoCall EXCEPT !.op = "update_story_quality_score",
                                     !.quality_score = new_score,
                                     !.pre_collection = << meta >> ]
    /\ UNCHANGED <<rag, collection, feedback_collection, now, issued, pc, local>>

NextUpdate == ApplyScoreUpdate

SpecUpdate == InitUpdate /\ [][NextUpdate]_vars

-----------------------------------------------------------------------------
(* _calculate_relevance_score and the promotion of one metadata dictionary *)

\* cosine distances of a candidate, in hundredths
Distances == {0, 30, 90, 100, 150, 200}

\* feedback scores a metadata dictionary holds (0 is written by
\* add_generated_story_context, 282 by a score update)
StoredScores == {Absent, 0, 100, 200, 282, 300, 450, 500}

InitScore ==
    /\ rag = "real"
    /\ collection = <<>>
    /\ feedback_collection = <<>>
    /\ now = 0
    /\ issued = {}
    /\ last = NoCall
    /\ pc = [ w \in Workers |-> "idle" ]
    /\ local = [ w \in Workers |-> NoLocal ]
    /\ \E base \in { SampleRecord(0, SampleExamples[1]),
                      GeneratedRecord(T_LOGIN, << Case("TC_001") >>, None),
                      GeneratedRecord(T_CART, << Case("TC_001") >>, None) },
          feedback_score \in StoredScores,
          feedback_count \in {Absent} \cup 0..MaxCount,
          source \in {"sample_data", "generated", "user_improved"} :
          meta = [ base EXCEPT !.feedback_score = feedback_score,
                               !.feedback_count = feedback_count,
                               !.source = source ]

\* one call of _calculate_relevance_score for the candidate meta
ScoreCandidate ==
    /\ \E query \in Texts, distance \in Distances :
          last' = [ NoCall EXCEPT
                      !.op = "calculate_relevance_score", !.text = query,
                      !.distance = distance,
                      !.relevance_score =
                          calculate_relevance_score(meta, distance, extract_domain(query),
                                                    extract_keywords(query)) ]
    /\ UNCHANGED <<rag, collection, feedback_collection, now, issued, pc, local, meta>>

\* _add_improved_examples_to_knowledge_base for the original meta: meta becomes
\* the promoted metadata, the original is kept in last
PromoteCandidate ==
    /\ meta.source # "user_improved"
    /\ \E improved_testcases \in { << Case("TC_IMP_001") >> } :
          /\ meta' = ImprovedRecord(meta, meta.id, improved_testcases, now)
          /\ last' = [ NoCall EXCEPT !.op = "add_improved_examples",
                                     !.improved = improved_testcases,
                                     !.pre_collection = << meta >> ]
    /\ UNCHANGED <<rag, collection, feedback_collection, now, issued, pc, local>>

NextScore == ScoreCandidate \/ PromoteCandidate

SpecScore == InitScore /\ [][NextScore]_vars

-----------------------------------------------------------------------------
(* add_feedback on an empty store, for feedback texts of every length class *)

FeedbackLengths == {0, 5, 20, 21, 50, 51, 60}

WeightScores == {100, 200, 250, 300, 400, 450, 500}

InitWeight == Init

WeighFeedback ==
    /\ Len(feedback_collection) < MaxFeedback
    /\ \E q \in WeightScores, n \in FeedbackLengths, tie_up \in BOOLEAN,
          faults \in FaultSets({"encode", "add"}) :
          \E r \in { add_feedback(collection, feedback_collection, generate_story_id(T_LOGIN),
                                  q, n, <<>>, now, tie_up, faults) } :
              /\ collection' = r.collection
              /\ feedback_collection' = r.feedback_collection
              /\ last' = [ Called("add_feedback") EXCEPT
                             !.story_id = generate_story_id(T_LOGIN), !.quality_score = q,
                             !.feedback_len = n, !.faults = faults, !.outcome = r.outcome ]
    /\ UNCHANGED <<rag, now, issued, pc, local, meta>>

NextWeight ==
    \/ Tick
    \/ WeighFeedback

SpecWeight == InitWeight /\ [][NextWeight]_vars

-----------------------------------------------------------------------------
(* _extract_domain on texts given character by character *)

MaxWords == 2

\* domain_keywords of _extract_domain, in the order of the dictionary
DomainKeywords ==
    << [ domain |-> "ecommerce",
         keywords |-> { <<"c","a","r","t">>,
                       <<"p","r","o","d","u","c","t">>,
                       <<"c","h","e","c","k","o","u","t">>,
                       <<"o","r","d","e","r">>,
                       <<"p","u","r","c","h","a","s","e">>,
                       <<"s","h","o","p">>,
                       <<"i","n","v","e","n","t","o","r","y">> } ],
       [ domain |-> "authentication",
         keywords |-> { <<"l","o","g","i","n">>,
                       <<"p","a","s","s","w","o","r","d">>,
                       <<"u","s","e","r">>,
                       <<"a","c","c","o","u","n","t">>,
                       <<"r","e","g","i","s","t","e","r">>,
                       <<"a","u","t","h">> } ],
       [ domain |-> "finance",
         keywords |-> { <<"p","a","y","m","e","n","t">>,
                       <<"t","r","a","n","s","a","c","t","i","o","n">>,
                       <<"b","i","l","l","i","n","g">>,
                       <<"i","n","v","o","i","c","e">>,
                       <<"m","o","n","e","y">>,
                       <<"c","r","e","d","i","t">> } ],
       [ domain |-> "social",
         keywords |-> { <<"p","o","s","t">>,
                       <<"c","o","m","m","e","n","t">>,
                       <<"l","i","k","e">>,
                       <<"s","h","a","r","e">>,
                       <<"f","o","l","l","o","w">>,
                       <<"m","e","s","s","a","g","e">> } ],
       [ domain |-> "search",
         keywords |-> { <<"s","e","a","r","c","h">>,
                       <<"f","i","l","t","e","r">>,
                       <<"s","o","r","t">>,
                       <<"q","u","e","r","y">>,
                       <<"r","e","s","u","l","t","s">> } ],
       [ domain |-> "mobile",
         keywords |-> { <<"m","o","b","i","l","e">>,
                       <<"a","p","p">>,
                       <<"s","w","i","p","e">>,
                       <<"t","o","u","c","h">>,
                       <<"n","o","t","i","f","i","c","a","t","i","o","n">> } ],
       [ domain |-> "ui_ux",
         keywords |-> { <<"c","l","i","c","k">>,
                       <<"b","u","t","t","o","n">>,
                       <<"f","o","r","m">>,
                       <<"p","a","g","e">>,
                       <<"n","a","v","i","g","a","t","e">>,
                       <<"i","n","t","e","r","f","a","c","e">> } ] >>

\* the words that the classified texts are made of
StoryWords ==
    { <<"C","h","e","c","k","o","u","t">>,
      <<"c","a","r","t">>,
      <<"l","o","g","i","n">>,
      <<"a","u","t","h","e","n","t","i","c","a","t","e">>,
      <<"a","p","p","l","i","c","a","t","i","o","n">>,
      <<"r","e","o","r","d","e","r">>,
      <<"r","e","p","o","r","t">>,
      <<"s","e","n","d","s">>,
      <<"m","e","s","s","a","g","e">>,
      <<"t","h","e">> }

\* the texts of at most MaxWords words
StoryTexts == UNION { [1..n -> StoryWords] : n \in 0..MaxWords }

\* the characters of a text: its words separated by single spaces
RECURSIVE JoinWords(_)
JoinWords(words) ==
    IF words = <<>> THEN <<>>
    ELSE IF Len(words) = 1 THEN words[1]
    ELSE words[1] \o << " " >> \o JoinWords(Tail(words))

\* str.lower() for the characters that occur in StoryWords
LowerChar(c) == IF c = "C" THEN "c" ELSE c

Lower(chars) == [ i \in 1..Len(chars) |-> LowerChar(chars[i]) ]

\* keyword in story_lower
IsSubstring(keyword, chars) ==
    \E i \in 1..(Len(chars) - Len(keyword) + 1) : SubSeq(chars, i, i + Len(keyword) - 1) = keyword

RECURSIVE FirstDomainFrom(_, _)
FirstDomainFrom(i, story_lower) ==
    IF i > Len(DomainKeywords) THEN "general"
    ELSE IF \E keyword \in DomainKeywords[i].keywords : IsSubstring(keyword, story_lower)
    THEN DomainKeywords[i].domain
    ELSE FirstDomainFrom(i + 1, story_lower)

\* variant: a keyword counts only when it is one of the words of the text
extract_domain_of_words_only(words) ==
    LET Match(i) == \E k \in 1..Len(words) : Lower(words[k]) \in DomainKeywords[i].keywords
    IN  IF \E i \in 1..Len(DomainKeywords) : Match(i)
        THEN DomainKeywords[CHOOSE i \in 1..Len(DomainKeywords) :
                                Match(i) /\ \A j \in 1..(i - 1) : ~Match(j)].domain
        ELSE "general"

\* _extract_domain of the text made of the given words
extract_domain_of_words(words) ==
    FirstDomainFrom(1, Value({ AsSeq(Lower(JoinWords(w))) : w \in {words} }))

InitClassify == Init

ExtractDomain ==
    /\ \E words \in StoryTexts :
          last' = [ Called("extract_domain") EXCEPT
                      !.words = words, !.domain = extract_domain_of_words(words) ]
    /\ UNCHANGED <<rag, collection, feedback_collection, now, issued, pc, local, meta>>

NextClassify ==
    \/ Tick
    \/ ExtractDomain

SpecClassify == InitClassify /\ [][NextClassify]_vars

-----------------------------------------------------------------------------
(* get_learning_stats over the feedback written by add_feedback *)

MaxStats == 3

StatsScores == {300, 410, 420, 450}

StatsStories == { generate_story_id(T_LOGIN), generate_story_id(T_CART) }

RECURSIVE SumScores(_)
SumScores(scores) ==
    IF scores = <<>> THEN 0 ELSE Head(scores) + SumScores(Tail(scores))

\* the comparisons of _get_improvement_trends.  The two means are quotients of
\* floating-point numbers; when they differ by exactly 0.1 the rounding errors of
\* the quotients and of older_avg + 0.1 decide the comparison one way or the
\* other (3.0 then 3.1 is "stable", 4.1 then 4.2 is "improving"): tie_trend tells
\* whether they made the difference count as more than 0.1.
Trend(older_scores, recent_scores, tie_trend) ==
    LET recent == SumScores(recent_scores) * Len(older_scores)
        older == SumScores(older_scores) * Len(recent_scores)
        tenth == 10 * Len(older_scores) * Len(recent_scores)
    IN  IF recent > older + tenth \/ (recent = older + tenth /\ tie_trend) THEN "improving"
        ELSE IF recent < older - tenth \/ (recent = older - tenth /\ tie_trend) THEN "declining"
        ELSE "stable"

\* _get_improvement_trends: every record written by add_feedback carries a
\* feedback_date and a quality_score that parse, so no item is skipped
get_improvement_trends(fb, tie_trend, tie_up, faults) ==
    IF "get" \in faults
    THEN [ trend |-> "error", recent_avg |-> 300, older_avg |-> 300, improvement_rate |-> Absent ]
    ELSE IF Len(fb) < 2
    THEN [ trend |-> "insufficient_data", recent_avg |-> 300, older_avg |-> 300,
           improvement_rate |-> Absent ]
    ELSE LET feedback_with_dates ==
                 SortByKey([ i \in 1..Len(fb) |->
                               [key |-> fb[i].feedback_date, score |-> fb[i].quality_score] ])
             mid_point == Len(fb) \div 2
             older_scores == [ i \in 1..mid_point |-> feedback_with_dates[i].score ]
             recent_scores == [ i \in 1..(Len(fb) - mid_point) |->
                                  feedback_with_dates[mid_point + i].score ]
         IN  [ trend |-> Trend(older_scores, recent_scores, tie_trend),
               recent_avg |-> Round2(SumScores(recent_scores), Len(recent_scores), tie_up),
               older_avg |-> Round2(SumScores(older_scores), Len(older_scores), tie_up),
               improvement_rate |->
                   Round2(SumScores(recent_scores) * Len(older_scores)
                            - SumScores(older_scores) * Len(recent_scores),
                          Len(older_scores) * Len(recent_scores), tie_up) ]

\* get_learning_stats: of the dictionary it returns, the counts, the health
\* status and the trend; a failing count() makes it return {"error": ...}
get_learning_stats(coll, fb, tie_trend, tie_up, faults) ==
    IF "count" \in faults
    THEN [ error |-> TRUE, total_stories_learned |-> Absent, total_feedback_received |-> Absent,
           status |-> "none", improvement_trends |-> <<>> ]
    ELSE [ error |-> FALSE,
           total_stories_learned |-> Len(coll),
           total_feedback_received |-> Len(fb),
           status |-> IF Len(fb) > 0 THEN "active" ELSE "waiting_for_feedback",
           improvement_trends |-> get_improvement_trends(fb, tie_trend, tie_up, faults) ]

InitStats == Init

RecordFeedback ==
    /\ Len(feedback_collection) < MaxStats
    /\ \E story_id \in StatsStories, q \in StatsScores, faults \in FaultSets({"add"}) :
          \E r \in { add_feedback(collection, feedback_collection, story_id, q, 5, <<>>,
                                  now, FALSE, faults) } :
              /\ collection' = r.collection
              /\ feedback_collection' = r.feedback_collection
              /\ last' = [ NoCall EXCEPT !.op = "add_feedback", !.story_id = story_id,
                                         !.quality_score = q, !.feedback_len = 5,
                                         !.faults = faults, !.outcome = r.outcome ]
    /\ UNCHANGED <<rag, now, issued, pc, local, meta>>

GetLearningStats ==
    /\ \E tie_trend \in BOOLEAN, tie_up \in BOOLEAN, faults \in FaultSets({"count", "get"}) :
          last' = [ NoCall EXCEPT
                      !.op = "get_learning_stats", !.faults = faults, !.outcome = "returned",
                      !.stats = get_learning_stats(collection, feedback_collection,
                                                   tie_trend, tie_up, faults) ]
    /\ UNCHANGED <<rag, collection, feedback_collection, now, issued, pc, local, meta>>

NextStats ==
    \/ Tick
    \/ RecordFeedback
    \/ GetLearningStats

SpecStats == InitStats /\ [][NextStats]_vars

-----------------------------------------------------------------------------
(* Retrieval from stores filled by seed files and by generations *)

\* a sample file in which one entry occurs twice
DuplicatedExamples ==
    << [userStory |-> S_LOGIN, testCases |-> << Case("TC_LOGIN_001") >>],
       [userStory |-> S_LOGIN, testCases |-> << Case("TC_LOGIN_001") >>],
       [userStory |-> S_CART, testCases |-> << Case("TC_CART_001") >>] >>

SeedFiles == SampleFiles \cup { DuplicatedExamples }

\* a generation whose text repeats the id of an example of its prompt: an edge
\* case of the retrieval (parse_testcases_from_text keeps the ids of the text)
EchoedCaseLists == { << Case("edge_auth_1") >> }

InitRetrieve == Init

IngestSeedFile ==
    /\ \E examples \in SeedFiles, faults \in FaultSets({"add"}) :
          \E r \in { ingest_testcases_from_json(collection, examples, faults) } :
              /\ collection' = r.collection
              /\ last' = [ Called("ingest") EXCEPT !.examples = examples, !.faults = faults,
                                                   !.outcome = r.outcome ]
    /\ UNCHANGED <<rag, feedback_collection, now, issued, pc, local, meta>>

StoreGeneratedStory ==
    /\ \E user_story \in Texts, generated_testcases \in GeneratedCaseLists \cup EchoedCaseLists,
          faults \in FaultSets({"add"}) :
          \E r \in { add_generated_story_context(collection, user_story, generated_testcases,
                                                 None, faults) } :
              /\ collection' = r.collection
              /\ last' = [ Called("add_generated_story_context") EXCEPT
                             !.text = user_story, !.faults = faults, !.outcome = r.outcome ]
    /\ UNCHANGED <<rag, feedback_collection, now, issued, pc, local, meta>>

NextRetrieve ==
    \/ Tick
    \/ IngestSeedFile
    \/ StoreGeneratedStory
    \/ RetrieveSimilarWithContext

SpecRetrieve == InitRetrieve /\ [][NextRetrieve]_vars

-----------------------------------------------------------------------------
(* Every operation of the engine, one call at a time, on a persistent store *)
(* whose records may carry the metadata key "story_id"                      *)

InitFrame ==
    /\ rag = "real"
    /\ collection \in PersistedStores
    /\ feedback_collection = <<>>
    /\ now = 0
    /\ issued = {}
    /\ last = NoCall
    /\ pc = [ w \in Workers |-> "idle" ]
    /\ local = [ w \in Workers |-> NoLocal ]
    /\ meta = NoMeta

\* the operation that was called last; of its arguments and result nothing is kept
Did(op) == [ NoCall EXCEPT !.op = op ]

FrameIngest ==
    /\ \E examples \in SampleFiles :
          /\ collection' = ingest_testcases_from_json(collection, examples, {}).collection
          /\ last' = Did("ingest")
    /\ UNCHANGED <<rag, feedback_collection, now, issued, pc, local, meta>>

FrameGenerate ==
    /\ \E user_story \in Texts, generated_testcases \in GeneratedCaseLists :
          /\ collection' = add_generated_story_context(collection, user_story,
                                generated_testcases, None, {}).collection
          /\ last' = Did("add_generated_story_context")
    /\ UNCHANGED <<rag, feedback_collection, now, issued, pc, local, meta>>

\* retrieval tags copies of the stored test cases (json.loads of the metadata)
FrameRetrieve ==
    /\ \E user_story \in Texts :
          \E r \in { retrieve_similar_with_context(collection, user_story, MaxTopK, {}) } :
              last' = Did("retrieve_similar_with_context")
    /\ UNCHANGED <<rag, collection, feedback_collection, now, issued, pc, local, meta>>

\* feedback for the stored generated story, with improved test cases and
\* without, and for a seed record
FrameEvents ==
    { [ story_id |-> generate_story_id(T_LOGIN), quality_score |-> 450, feedback_len |-> 60,
        improved |-> << Case("TC_IMP_001") >> ],
      [ story_id |-> generate_story_id(T_LOGIN), quality_score |-> 200, feedback_len |-> 5,
        improved |-> <<>> ],
      [ story_id |-> << "sample", "0" >>, quality_score |-> 100, feedback_len |-> 5,
        improved |-> <<>> ] }

\* add_feedback, called while the feedback counts are below the bound
FrameFeedback ==
    /\ Len(feedback_collection) < MaxFeedback
    /\ \A i \in 1..Len(collection) : FeedbackCount(collection[i]) < MaxPromote
    /\ \E e \in FrameEvents, faults \in FaultSets({"add"}) :
          \E r \in { add_feedback(collection, feedback_collection, e.story_id, e.quality_score,
                                  e.feedback_len, e.improved, now, TRUE, faults) } :
              /\ collection' = r.collection
              /\ feedback_collection' = r.feedback_collection
              /\ last' = Did("add_feedback")
    /\ UNCHANGED <<rag, now, issued, pc, local, meta>>

FrameStats ==
    /\ \E faults \in FaultSets({"get"}) :
          \E r \in { get_learning_stats(collection, feedback_collection, TRUE, TRUE,
                                        faults) } :
              last' = Did("get_learning_stats")
    /\ UNCHANGED <<rag, collection, feedback_collection, now, issued, pc, local, meta>>

NextFrame ==
    \/ Tick
    \/ FrameIngest
    \/ FrameGenerate
    \/ FrameRetrieve
    \/ FrameFeedback
    \/ FrameStats

SpecFrame == InitFrame /\ [][NextFrame]_vars

-----------------------------------------------------------------------------
(* The score update for feedback scores with three decimals *)

\* the scores are counted in thousandths: 1 / FineScale hundredths
FineScale == 10

FineScores == {1000, 2994, 3005, 4500, 4555, 5000}

ApplyFineScoreUpdate ==
    /\ MetaGet(meta.feedback_count, 0) < MaxCount
    /\ \E new_score \in FineScores, tie_up \in BOOLEAN :
          /\ meta' = UpdatedMetadataScaled(meta, new_score, FineScale, now, tie_up)
          /\ last' = [ NoCall EXCEPT !.op = "update_story_quality_score",
                                     !.quality_score = new_score,
                                     !.scale = FineScale,
                                     !.pre_collection = << meta >> ]
    /\ UNCHANGED <<rag, collection, feedback_collection, now, issued, pc, local>>

NextUpdateFine == ApplyFineScoreUpdate

SpecUpdateFine == InitUpdate /\ [][NextUpdateFine]_vars

-----------------------------------------------------------------------------
(* Properties *)

ValidScore(q) == q # None /\ 100 <= q /\ q <= 500

\* C1: for every top_k >= 0 and every store state, also when the embedder or
\* the store query fails, retrieve_similar_with_context returns at most top_k
\* test cases.
C1_AtMostTopK ==
    last.op = "retrieve_similar_with_context" => Len(last.cases) <= last.top_k

\* C2: one add_feedback call with a valid score for the id of a stored record
\* raises that record's feedback_count by exactly 1 and replaces its
\* feedback_score by the confidence-weighted value.
C2_FeedbackUpdatesRecord ==
    ( /\ last.op = "add_feedback"
      /\ ValidScore(last.quality_score)
      /\ last.faults = {} )
    => \A i \in Stored(last.pre_collection, last.story_id) :
          /\ collection[i].id = last.story_id
          /\ collection[i].feedback_count
                = MetaGet(last.pre_collection[i].feedback_count, 0) + 1
          /\ collection[i].feedback_score
                \in { UpdatedMetadata(last.pre_collection[i], last.quality_score, now,
                                      tie_up).feedback_score : tie_up \in BOOLEAN }

\* C3: the story_id in the response of generate-test-cases identifies the record
\* that request stored: feedback sent to the feedback endpoint with that
\* story_id is accepted and changes the feedback_count of that record.
C3_IssuedStoryIdReceivesFeedback ==
    \A g \in issued :
        ( /\ last.op = "submit_feedback"
          /\ last.story_id = StrOfNumber(g.story_id)
          /\ ValidScore(last.quality_score)
          /\ last.faults = {}
          /\ Stored(last.pre_collection, generate_story_id(g.text)) # {} )
        => /\ last.status = 200
           /\ \A i \in Stored(last.pre_collection, generate_story_id(g.text)) :
                 collection[i].feedback_count
                    = MetaGet(last.pre_collection[i].feedback_count, 0) + 1

\* C6: add_feedback for a story_id that matches no stored record stores no
\* feedback record, so every stored feedback record's story_id is the id of a
\* stored record.
C6_FeedbackReferencesStory ==
    \A i \in 1..Len(feedback_collection) :
        feedback_collection[i].story_id \in Ids(collection)

\* C7: add_feedback with a quality score outside [1, 5] fails and leaves both
\* collections as they were.
C7_InvalidScoreRejected ==
    ( /\ last.op = "add_feedback"
      /\ ~ ValidScore(last.quality_score) )
    => /\ last.outcome = "raised"
       /\ collection = last.pre_collection
       /\ feedback_collection = last.pre_feedback

\* C8: add_generated_story_context and add_feedback never return normally
\* while the record they were asked to write is not in the store.
C8_WriteFailurePropagates ==
    /\ ( last.op = "add_generated_story_context" /\ last.outcome = "returned" )
       => generate_story_id(last.text) \in Ids(collection)
    /\ ( last.op = "add_feedback" /\ last.outcome = "returned" )
       => \E i \in 1..Len(feedback_collection) :
             /\ feedback_collection[i].story_id = last.story_id
             /\ feedback_collection[i].quality_score = last.quality_score
             /\ feedback_collection[i].feedback_date = now

\* C9: when the embedding or the store query raises inside
\* retrieve_similar_with_context, the call returns normally with the fixed
\* fallback list.
C9_RetrievalFailsOpen ==
    ( /\ last.op = "retrieve_similar_with_context"
      /\ last.faults # {} )
    => /\ last.outcome = "returned"
       /\ last.cases = << [id |-> "fallback_1", context_relevance |-> Absent] >>

C9_Witness ==
    /\ last.op = "retrieve_similar_with_context"
    /\ last.faults = {"query"}
    /\ last.top_k = 2
    /\ collection # <<>>

\* C10: a generate-test-cases request whose retrieval failed (an exception of
\* the embedder or of the store, or no RAG system at start-up) still builds
\* a prompt and calls the LLM, with no or only the fallback similar examples.
C10_RetrievalFailureNeverBlocks ==
    ( /\ last.op = "generate_test_cases"
      /\ last.text # ""
      /\ (rag = "mock" \/ "encode" \in last.faults \/ "query" \in last.faults) )
    => /\ last.prompt \in {"enhanced", "basic"}
       /\ last.llm \in {"called", "failed"}
       /\ ("llm" \notin last.faults => last.status = 200)
       /\ last.similar \in { <<>>, << [id |-> "fallback_1", context_relevance |-> Absent] >> }

C10_Witness ==
    /\ last.op = "generate_test_cases"
    /\ last.text = T_LOGIN
    /\ rag = "real"
    /\ last.faults = {"query"}
    /\ last.status = 200
    /\ collection # <<>>

\* C4: two add_feedback calls for the same stored story that ran on two
\* threads lose no update: once both have finished, the record's
\* feedback_count has grown by 2 and its score is the result of applying the
\* two scores one after the other in some order.
C4_NoLostUpdate ==
    ( /\ \A w \in Workers : pc[w] = "done" /\ local[w].existed
      /\ local[1].story_id = local[2].story_id )
    => \A i \in Stored(collection, local[1].story_id) :
          LET base == IF local[1].pre_count <= local[2].pre_count THEN local[1] ELSE local[2]
              start == [ collection[i] EXCEPT !.feedback_score = base.pre_score,
                                              !.feedback_count = base.pre_count ]
              both(a, b) == { UpdatedMetadata(UpdatedMetadata(start, a, now, t1),
                                              b, now, t2).feedback_score :
                              t1 \in BOOLEAN, t2 \in BOOLEAN }
          IN  /\ MetaGet(collection[i].feedback_count, 0) = base.pre_count + 2
              /\ collection[i].feedback_score
                    \in both(local[1].quality_score, local[2].quality_score)
                         \cup both(local[2].quality_score, local[1].quality_score)

-----------------------------------------------------------------------------
(* Insertions *)

\* C11 (as stated): after each add_generated_story_context whose calls all
\* succeed the number of stored records has grown by one, also when the same
\* text was inserted before
C11_GeneratedAlwaysAppends ==
    (last.op = "add_generated_story_context" /\ last.faults = {})
        => Len(collection) = Len(last.pre_collection) + 1

\* C11 (amended): add_generated_story_context stores a new record, under the id
\* derived from the text, exactly when its calls succeed and no record with that
\* id is stored; when the same text was inserted before, the store is unchanged
C11_GeneratedAppendsUnlessStored ==
    last.op = "add_generated_story_context"
        => LET id == generate_story_id(last.text)
               pre == last.pre_collection
           IN  IF last.faults = {} /\ id \notin Ids(pre)
               THEN /\ Len(collection) = Len(pre) + 1
                    /\ SubSeq(collection, 1, Len(pre)) = pre
                    /\ collection[Len(collection)].id = id
                    /\ collection[Len(collection)].document = last.text
                    /\ collection[Len(collection)].source = "generated"
               ELSE collection = pre

\* the same text is inserted a second time and every call succeeds
C11_Witness ==
    /\ last.op = "add_generated_story_context"
    /\ last.faults = {}
    /\ generate_story_id(last.text) \in Ids(last.pre_collection)
    /\ collection = last.pre_collection

\* the positions of the records that the seed ingestion wrote
SampleRecords(coll) == { i \in 1..Len(coll) : coll[i].source = "sample_data" }

\* C12: the store never holds two sample records with identical text, the id of
\* a sample record is determined by its text, and an ingestion whose texts are
\* all stored already leaves the stored records unchanged
C12_SeedIngestionIdempotentByText ==
    /\ \A i, j \in SampleRecords(collection) :
           (collection[i].document = collection[j].document) <=> (i = j)
    /\ (last.op = "ingest"
          /\ \A k \in 1..Len(last.examples) :
                \E i \in SampleRecords(last.pre_collection) :
                    last.pre_collection[i].document = last.examples[k].userStory)
        => collection = last.pre_collection

-----------------------------------------------------------------------------
(* Quality scores *)

\* C13: in every reachable state the quality score of every stored record lies
\* in [1.0, 5.0], and a record that has received no feedback (none is inserted
\* with a feedback score) holds the default 3.0
C13_QualityScoreInRange ==
    \A i \in 1..Len(collection) :
        /\ 100 <= QualityScore(collection[i])
        /\ QualityScore(collection[i]) <= 500
        /\ (FeedbackCount(collection[i]) = 0 /\ collection[i].source # "user_improved")
               => QualityScore(collection[i]) = 300

-----------------------------------------------------------------------------
(* Relevance scores *)

\* the score of the call recorded in last, computed again for candidate
ScoreOf(candidate) ==
    calculate_relevance_score(candidate, last.distance, extract_domain(last.text),
                              extract_keywords(last.text))

\* C14: for every distance in [0, 2], every pair of domains, every keyword
\* overlap, every quality score in [1, 5], every feedback count >= 0 and every
\* source, the relevance score lies in [0, 1] and is the function of these inputs
C14_RelevanceScoreInUnitInterval ==
    (/\ last.op = "calculate_relevance_score"
     /\ 100 <= QualityScore(meta) /\ QualityScore(meta) <= 500
     /\ FeedbackCount(meta) >= 0
     /\ 0 <= last.distance /\ last.distance <= 200)
        => /\ last.relevance_score = ScoreOf(meta)
           /\ 0 <= last.relevance_score
           /\ last.relevance_score <= 1000000

\* the score of candidate for a query at a distance
ScoreFor(candidate, query, distance) ==
    calculate_relevance_score(candidate, distance, extract_domain(query),
                              extract_keywords(query))

\* C17 (as stated): for every query and distance the promoted record's relevance
\* score is strictly greater than the score of the original it was derived from
C17_PromotedStrictlyOutranks ==
    last.op = "add_improved_examples"
        => \A query \in Texts, distance \in Distances :
               ScoreFor(meta, query, distance)
                   > ScoreFor(last.pre_collection[1], query, distance)

\* C17 (amended): for every query and distance the promoted record's relevance
\* score is at least the original's, and strictly greater unless the promoted
\* record's score is clamped to 1.0
C17_PromotedOutranksBelowClamp ==
    last.op = "add_improved_examples"
        => \A query \in Texts, distance \in Distances :
               LET promoted == ScoreFor(meta, query, distance)
                   original == ScoreFor(last.pre_collection[1], query, distance)
               IN  /\ promoted >= original
                   /\ promoted < 1000000 => promoted > original
                   /\ meta.source = "user_improved"
                   /\ QualityScore(meta) = 500

\* a generated original with score 5.0 after three feedbacks is promoted: for
\* its own text both scores are clamped to 1.0, for another text the promoted
\* record scores higher
C17_Witness ==
    /\ last.op = "add_improved_examples"
    /\ last.pre_collection[1].source = "generated"
    /\ QualityScore(last.pre_collection[1]) = 500
    /\ FeedbackCount(last.pre_collection[1]) = 3
    /\ ScoreFor(meta, meta.document, 0) = 1000000
    /\ ScoreFor(last.pre_collection[1], meta.document, 0) = 1000000
    /\ \E query \in Texts :
           ScoreFor(meta, query, 90) > ScoreFor(last.pre_collection[1], query, 90)

\* a domain other than d
OtherDomain(d) == IF d = "finance" THEN "general" ELSE "finance"

\* C20: of two candidates that agree in distance, keywords, quality score,
\* feedback count and source, the one whose domain equals the query domain gets
\* the strictly greater final relevance score
C20_DomainMatchScoresHigher ==
    last.op = "calculate_relevance_score"
        => LET query_domain == extract_domain(last.text)
           IN  IF meta.domain = query_domain
               THEN last.relevance_score
                        > ScoreOf([ meta EXCEPT !.domain = OtherDomain(query_domain) ])
               ELSE ScoreOf([ meta EXCEPT !.domain = query_domain ]) > last.relevance_score

\* a candidate of the query's domain is scored at the upper end (its sum
\* exceeds 1.0 before the clamp) and one at the lower end (its sum is negative)
C20_Witness ==
    /\ last.op = "calculate_relevance_score"
    /\ meta.domain = extract_domain(last.text)
    /\ \/ last.relevance_score = 1000000
       \/ last.relevance_score < 0

-----------------------------------------------------------------------------
(* Promotion of improved test cases *)

\* C15: for a stored story, add_feedback adds exactly one record, with source
\* user_improved, the text of the original, the improved test cases and quality
\* score 5.0, if and only if improved test cases are given and the score is at
\* least 4.0; otherwise the number of stored records is unchanged
C15_PromotionAddsOneRecord ==
    (/\ last.op = "add_feedback"
     /\ last.faults = {}
     /\ Stored(last.pre_collection, last.story_id) # {})
        => LET pre == last.pre_collection
               original == pre[CHOOSE i \in Stored(pre, last.story_id) : TRUE]
           IN  IF last.improved # <<>> /\ last.quality_score >= 400
               THEN /\ Len(collection) = Len(pre) + 1
                    /\ collection[Len(collection)].source = "user_improved"
                    /\ collection[Len(collection)].document = original.document
                    /\ collection[Len(collection)].testCases = last.improved
                    /\ QualityScore(collection[Len(collection)]) = 500
               ELSE Len(collection) = Len(pre)

\* C16: the step that inserts the promoted record leaves every record that was
\* stored before it as it was: the original's text, test cases, source, quality
\* score and feedback count are the same before and after
C16_PromotionKeepsOriginal ==
    [][ \A w \in Workers :
          (/\ pc[w] = "improve" /\ pc'[w] = "done"
           /\ local[w].improved # <<>> /\ local[w].quality_score >= 400
           /\ CollectionGetWhereStoryId(collection, local[w].story_id) # {})
              => /\ Len(collection') >= Len(collection)
                 /\ \A i \in 1..Len(collection) :
                        /\ collection'[i].document = collection[i].document
                        /\ collection'[i].testCases = collection[i].testCases
                        /\ collection'[i].source = collection[i].source
                        /\ collection'[i].feedback_score = collection[i].feedback_score
                        /\ collection'[i].feedback_count = collection[i].feedback_count ]_vars

\* a promoted record is stored next to the generated original it was derived from
C16_Witness ==
    \E i, j \in 1..Len(collection) :
        /\ collection[i].source = "user_improved"
        /\ collection[i].original_story_id = collection[j].story_id
        /\ collection[j].source = "generated"
        /\ collection[i].document = collection[j].document
        /\ collection[j].testCases = << Case("TC_001") >>

-----------------------------------------------------------------------------
(* Retrieval results *)

\* C18: against an empty store, retrieval with top_k = 5 (the call of the
\* generation endpoint) returns exactly the edge cases of the domain of the
\* text, in table order, at most 5 of them, and the same list at every call
C18_EmptyStoreGivesDomainFallback ==
    (/\ last.op = "generate_test_cases"
     /\ rag = "real"
     /\ last.text # ""
     /\ last.pre_collection = <<>>
     /\ "encode" \notin last.faults /\ "query" \notin last.faults)
        => /\ last.similar = generate_domain_specific_edge_cases(extract_domain(last.text))
           /\ Len(last.similar) <= 5

\* the cart story is queried against the empty store and both edge cases of
\* its domain come back in table order
C18_Witness ==
    /\ last.op = "generate_test_cases"
    /\ rag = "real"
    /\ last.text = T_CART
    /\ last.pre_collection = <<>>
    /\ last.faults = {}
    /\ last.similar = << Case("edge_ecom_1"), Case("edge_ecom_2") >>

\* the stored records of coll that hold a test case with this id
RecordsWithCase(coll, id) ==
    { i \in 1..Len(coll) : \E t \in 1..Len(coll[i].testCases) : coll[i].testCases[t].id = id }

\* C19: every test case of the list that retrieval returns is tagged with a
\* relevance score in [0, 1], and the tag of a test case taken from a stored
\* record is the score computed for that record in this call
C19_EveryCaseTaggedWithScore ==
    last.op = "retrieve_similar_with_context"
        => \A k \in 1..Len(last.cases) :
               LET case == last.cases[k]
                   pre == last.pre_collection
               IN  /\ case.context_relevance # Absent
                   /\ 0 <= case.context_relevance
                   /\ case.context_relevance <= 1000000
                   /\ RecordsWithCase(pre, case.id) # {}
                          => \E i \in RecordsWithCase(pre, case.id) :
                                 case.context_relevance
                                     = ScoreFor(pre[i], last.text,
                                                Distance(last.text, pre[i].document))

-----------------------------------------------------------------------------
(* Feedback records *)

\* the feedback record that the last add_feedback call wrote, if it wrote one
WroteFeedback ==
    /\ last.op = "add_feedback"
    /\ Len(feedback_collection) = Len(last.pre_feedback) + 1

\* C21: the weight stored on a feedback record is min(2.0, 1.0 + L + E), with
\* L = 0.3 for a feedback text longer than 50 characters, 0.1 for one longer
\* than 20, 0 otherwise, and E = 0.2 for a score <= 2.0 or >= 4.5, 0 otherwise;
\* (4.5, 5 characters) weighs 1.2 and (3.0, 60 characters) weighs 1.3.
C21_FeedbackWeightFormula ==
    WroteFeedback =>
        LET rec == feedback_collection[Len(feedback_collection)]
            L == CASE last.feedback_len > 50 -> 30
                   [] last.feedback_len > 20 /\ last.feedback_len <= 50 -> 10
                   [] OTHER -> 0
            E == CASE last.quality_score <= 200 -> 20
                   [] last.quality_score >= 450 -> 20
                   [] OTHER -> 0
        IN  /\ rec.feedback_weight = Min(200, 100 + L + E)
            /\ (last.quality_score = 450 /\ last.feedback_len = 5 => rec.feedback_weight = 120)
            /\ (last.quality_score = 300 /\ last.feedback_len = 60 => rec.feedback_weight = 130)

C21_Witness ==
    /\ WroteFeedback
    /\ last.quality_score = 300 /\ last.feedback_len = 60
    /\ feedback_collection[Len(feedback_collection)].feedback_weight = 130

-----------------------------------------------------------------------------
(* Domain classification *)

\* the lowercased words of the classified text
LowerWords == { Lower(last.words[k]) : k \in 1..Len(last.words) }

\* the domains whose keyword set contains a word of the classified text
WordDomains == { i \in 1..Len(DomainKeywords) : LowerWords \cap DomainKeywords[i].keywords # {} }

\* the domains with a keyword that occurs inside a word of the classified text
SubstringDomains ==
    { i \in 1..Len(DomainKeywords) :
        \E keyword \in DomainKeywords[i].keywords, w \in LowerWords :
            \E a, b \in 0..Len(w) : a + Len(keyword) + b = Len(w)
                                     /\ SubSeq(w, a + 1, a + Len(keyword)) = keyword }

FirstOf(domains) ==
    IF domains = {} THEN "general"
    ELSE DomainKeywords[CHOOSE i \in domains : \A j \in domains : i <= j].domain

\* C22: classify returns the first domain, in table order, whose keyword set
\* contains at least one word of the text, and general when no table keyword
\* occurs among the words of the text; a text with "checkout" and "cart" is
\* classified as (e)commerce.
C22_FirstDomainWithKeywordWord ==
    last.op = "extract_domain" => last.domain = FirstOf(WordDomains)

\* C22, amended: classify returns the first domain, in table order, one of whose
\* keywords occurs in the lowercased text as a substring, inside a word as well,
\* and general when no table keyword occurs in the text; a text with "checkout"
\* and "cart" is classified as ecommerce.
C22_FirstDomainWithKeywordSubstring ==
    last.op = "extract_domain" =>
        /\ last.domain = FirstOf(SubstringDomains)
        /\ ({ <<"c","h","e","c","k","o","u","t">>, <<"c","a","r","t">> } \subseteq LowerWords
               => last.domain = "ecommerce")

C22_Witness ==
    /\ last.op = "extract_domain"
    /\ last.words = << <<"t","h","e">>, <<"a","p","p","l","i","c","a","t","i","o","n">> >>
    /\ last.domain = "mobile"

-----------------------------------------------------------------------------
(* Statistics *)

\* the position of feedback record i among the records sorted by date
DateRank(i) ==
    Cardinality({ j \in 1..Len(feedback_collection) :
                    \/ feedback_collection[j].feedback_date < feedback_collection[i].feedback_date
                    \/ /\ feedback_collection[j].feedback_date = feedback_collection[i].feedback_date
                       /\ j <= i })

RECURSIVE ScoreSum(_)
ScoreSum(S) ==
    IF S = {} THEN 0
    ELSE LET i == CHOOSE j \in S : TRUE
         IN  feedback_collection[i].quality_score + ScoreSum(S \ {i})

OlderHalf == { i \in 1..Len(feedback_collection) : DateRank(i) <= Len(feedback_collection) \div 2 }
RecentHalf == (1..Len(feedback_collection)) \ OlderHalf

\* recent mean - older mean - d hundredths, times the sizes of the two halves
MeanGap(d) ==
    ScoreSum(RecentHalf) * Cardinality(OlderHalf) - ScoreSum(OlderHalf) * Cardinality(RecentHalf)
        - d * Cardinality(OlderHalf) * Cardinality(RecentHalf)

StatsReturned == last.op = "get_learning_stats" /\ last.faults = {}

\* C23: the trend is computed from the feedback sorted by time and split into
\* an older and a recent half: improving if the recent mean exceeds the older
\* mean by more than 0.1, declining if it is lower by more than 0.1, otherwise
\* stable; with fewer than two events it is insufficient_data with both means
\* 3.0; the call returns in every case.
C23_TrendByHalves ==
    /\ last.op = "get_learning_stats" => last.outcome = "returned"
    /\ StatsReturned =>
         LET t == last.stats.improvement_trends
         IN  IF Len(feedback_collection) < 2
             THEN t.trend = "insufficient_data" /\ t.recent_avg = 300 /\ t.older_avg = 300
             ELSE t.trend = (IF MeanGap(10) > 0 THEN "improving"
                             ELSE IF MeanGap(-10) < 0 THEN "declining" ELSE "stable")

\* the same statement for the stores in which the two means do not differ by
\* exactly 0.1
TrendByHalvesOffThreshold ==
    StatsReturned /\ Len(feedback_collection) >= 2 /\ MeanGap(10) # 0 /\ MeanGap(-10) # 0 =>
        last.stats.improvement_trends.trend =
            (IF MeanGap(10) > 0 THEN "improving"
             ELSE IF MeanGap(-10) < 0 THEN "declining" ELSE "stable")

-----------------------------------------------------------------------------
(* Order and composition of a retrieval result *)

\* the last call was a retrieval in which no call failed
Retrieved == last.op = "retrieve_similar_with_context" /\ last.faults = {}

\* distance and relevance score of record i of the store for the last query
QueryDistance(i) == Distance(last.text, collection[i].document)

QueryScore(i) ==
    calculate_relevance_score(collection[i], QueryDistance(i), extract_domain(last.text),
                              extract_keywords(last.text))

\* the nearest-neighbour query returns record i before record j
Nearer(i, j) ==
    QueryDistance(i) < QueryDistance(j) \/ (QueryDistance(i) = QueryDistance(j) /\ i < j)

\* the min(top_k * 3, 20) nearest records
Fetched ==
    { i \in 1..Len(collection) :
        Cardinality({ j \in 1..Len(collection) : Nearer(j, i) }) < Min(last.top_k * 3, 20) }

\* candidate i is processed before candidate j
Before(i, j) == QueryScore(i) > QueryScore(j) \/ (QueryScore(i) = QueryScore(j) /\ Nearer(i, j))

\* the candidates whose test cases the call looks at
Walked == { i \in Fetched : Cardinality({ j \in Fetched : Before(j, i) }) < last.top_k }

CaseIds(i) == { collection[i].testCases[k].id : k \in 1..Len(collection[i].testCases) }

\* the first processed candidate that holds a test case with this id
Owner(id) ==
    CHOOSE i \in Walked : id \in CaseIds(i) /\ \A j \in Walked : id \in CaseIds(j) => j = i \/ Before(i, j)

PositionIn(i, id) ==
    CHOOSE k \in 1..Len(collection[i].testCases) :
        /\ collection[i].testCases[k].id = id
        /\ \A m \in 1..(k - 1) : collection[i].testCases[m].id # id

\* the positions of the result that hold test cases taken from the store
StoredPositions == { k \in 1..Len(last.cases) : last.cases[k].context_relevance # Absent }

\* C24: within one retrieval the fetched candidates are processed in descending
\* order of relevance score, candidates with equal scores in the order in which
\* the nearest-neighbour query returned them: the stored test cases of the
\* result come in that order of the candidates they are taken from.
C24_ProcessedByDescendingScore ==
    Retrieved =>
        \A k, l \in StoredPositions :
            k < l =>
                /\ \E i \in Walked : last.cases[k].id \in CaseIds(i)
                /\ \E i \in Walked : last.cases[l].id \in CaseIds(i)
                /\ LET a == Owner(last.cases[k].id)
                       b == Owner(last.cases[l].id)
                   IN  \/ Before(a, b)
                       \/ a = b /\ PositionIn(a, last.cases[k].id) < PositionIn(a, last.cases[l].id)

\* two candidates with equal scores both contributed to the result
C24_Witness ==
    /\ Retrieved
    /\ \E k, l \in StoredPositions :
          /\ k < l
          /\ \E i \in Walked : last.cases[k].id \in CaseIds(i)
          /\ \E i \in Walked : last.cases[l].id \in CaseIds(i)
          /\ Owner(last.cases[k].id) # Owner(last.cases[l].id)
          /\ QueryScore(Owner(last.cases[k].id)) = QueryScore(Owner(last.cases[l].id))

\* C25: the list returned by a retrieval never holds two test cases with the
\* same id, the fallback cases appended for a shortfall included.
C25_NoDuplicateIds ==
    last.op = "retrieve_similar_with_context" =>
        \A k, l \in 1..Len(last.cases) : k # l => last.cases[k].id # last.cases[l].id

\* C26: whenever the fetched candidates (the min(top_k * 3, 20) nearest
\* records) together hold at least top_k distinct test cases, the result
\* consists of top_k stored test cases and no fallback case.
C26_FallbackOnlyWhenFetchedFallShort ==
    Retrieved /\ Cardinality(UNION { CaseIds(i) : i \in Fetched }) >= last.top_k =>
        /\ Len(last.cases) = last.top_k
        /\ StoredPositions = 1..Len(last.cases)

-----------------------------------------------------------------------------
(* What the operations leave alone *)

\* C27: no operation removes a story record or changes the text, domain,
\* keywords, source or test cases of a stored record; only its quality score,
\* feedback count and time of last feedback change, and only in add_feedback;
\* no stored feedback record is ever changed.
C27_RecordsOnlyRescored ==
    [][ /\ Len(collection') >= Len(collection)
        /\ \A i \in 1..Len(collection) :
              /\ collection'[i].id = collection[i].id
              /\ collection'[i].document = collection[i].document
              /\ collection'[i].domain = collection[i].domain
              /\ collection'[i].keywords = collection[i].keywords
              /\ collection'[i].source = collection[i].source
              /\ collection'[i].testCases = collection[i].testCases
              /\ collection'[i] # collection[i] =>
                    /\ last'.op = "add_feedback"
                    /\ collection'[i] = [ collection[i] EXCEPT
                                            !.feedback_score = collection'[i].feedback_score,
                                            !.feedback_count = collection'[i].feedback_count,
                                            !.last_feedback = collection'[i].last_feedback ]
        /\ Len(feedback_collection') >= Len(feedback_collection)
        /\ \A i \in 1..Len(feedback_collection) :
              feedback_collection'[i] = feedback_collection[i] ]_vars

\* a stored generated record was rescored and kept its text and test cases, and
\* feedback records and records added later stand next to it
C27_Witness ==
    /\ Len(feedback_collection) >= 1
    /\ \E i, j \in 1..Len(collection) :
          /\ collection[i].source = "generated"
          /\ FeedbackCount(collection[i]) >= 1
          /\ collection[i].document = T_LOGIN
          /\ collection[i].testCases = << Case("TC_001") >>
          /\ collection[j].source = "sample_data"
          /\ i < j

-----------------------------------------------------------------------------
(* Feedback bookkeeping *)

\* the stored feedback records that name this story id
FeedbackFor(id) == { j \in 1..Len(feedback_collection) : feedback_collection[j].story_id = id }

\* C28: in every state the feedback count of each story record is the number of
\* stored feedback records whose story_id is the id of the record.
C28_CountMatchesFeedbackRecords ==
    \A i \in 1..Len(collection) :
        FeedbackCount(collection[i]) = Cardinality(FeedbackFor(collection[i].id))

\* C29: every add_feedback call that completes adds exactly one new feedback
\* record, also when two events for the same story are processed at the same
\* timestamp: the step that writes the feedback record makes the feedback
\* store one record longer.
C29_EachFeedbackCallAddsOneRecord ==
    [][ \A w \in Workers :
          pc[w] = "feedback_add" /\ pc'[w] = "improve"
              => Len(feedback_collection') = Len(feedback_collection) + 1 ]_vars

-----------------------------------------------------------------------------
(* The score update and the scores it averages *)

ScoreUpdated == last.op = "update_story_quality_score"

\* the score and the count before the last update, and the score after it, the
\* scores in the unit of the feedback score (1 / last.scale hundredths)
OldScore == QualityScore(last.pre_collection[1]) * last.scale
OldCount == FeedbackCount(last.pre_collection[1])
NewScore == meta.feedback_score * last.scale

\* C30: for every feedback score q in [1, 5] the new quality score lies between
\* the old score and q (inclusive); when the feedback count of the record is 0
\* the new score equals q exactly, whatever score the record held before.
C30_NewScoreBetweenOldAndFeedback ==
    ScoreUpdated =>
        /\ Min(OldScore, last.quality_score) <= NewScore
        /\ NewScore <= Max(OldScore, last.quality_score)
        /\ OldCount = 0 => NewScore = last.quality_score

\* C30, amended: the new quality score is rounded to two decimals; it lies
\* between the old score and q up to 0.005, and when the feedback count of the
\* record is 0 it is q rounded to two decimals, whatever score the record held
\* before; for a q of at most two decimals it lies between the old score and q
\* and equals q when the count is 0.
C30_NewScoreBetweenUpToRounding ==
    ScoreUpdated =>
        /\ 2 * Min(OldScore, last.quality_score) - last.scale <= 2 * NewScore
        /\ 2 * NewScore <= 2 * Max(OldScore, last.quality_score) + last.scale
        /\ OldCount = 0 =>
              /\ 2 * NewScore <= 2 * last.quality_score + last.scale
              /\ 2 * last.quality_score - last.scale <= 2 * NewScore
        /\ last.quality_score % last.scale = 0 =>
              /\ Min(OldScore, last.quality_score) <= NewScore
              /\ NewScore <= Max(OldScore, last.quality_score)
              /\ OldCount = 0 => NewScore = last.quality_score

\* a record without feedback and with a stored score of 0 receives 4.555
C30_Witness ==
    /\ ScoreUpdated
    /\ OldCount = 0 /\ last.pre_collection[1].feedback_score = 0
    /\ last.quality_score = 4555
    /\ meta.feedback_score \in {455, 456}

=============================================================================
